---- MODULE Spec2Model ----
(***************************************************************************)
(* Model of scripts/seed.py: the reference-data seeding driver (main), the *)
(* two seed functions (seed_roles, seed_domains) and the two gate queries  *)
(* (check_table_exists, check_table_has_data), run against a database with *)
(* the tables roles and domains.                                           *)
(*                                                                         *)
(* The database is modelled by its committed rows (db) and, per session,   *)
(* the rows staged in the open transaction (staged).  Every awaited        *)
(* storage call (query, insert, commit, rollback) is one action; each may  *)
(* raise, which is the nondeterministic input "ok".  A failed commit       *)
(* commits nothing.  Each invocation of the script is one run; runs are    *)
(* numbered and the module-level uuid4() calls of a run yield identifiers  *)
(* no other run and no stored row has.                                     *)
(***************************************************************************)
EXTENDS Integers, Sequences, FiniteSets, TLC

\* Number of invocations of the script in one behaviour.
MaxRuns == 2

\* Sessions (one operating-system process each).
Procs == {1}

\* The tables of the schema contract.
Tables == {"roles", "domains"}

NoExit == -1

VARIABLES
    exists,     \* exists[t]: table t is in the schema (migrations ran)
    db,         \* db[t]: committed rows of table t
    nruns,      \* invocations started so far
    hist,       \* summaries of the finished runs, oldest first
    pc,         \* pc[p]: the await the run of p is at
    run,        \* run[p]: number of p's run (its uuid4 namespace, its clock)
    state,      \* state[p]: driver state of the run
    exit,       \* exit[p]: process exit status, NoExit while running
    staged,     \* staged[p][t]: rows inserted in p's open transaction
    i,          \* i[p]: index of the catalog record the for loop is at
    ret,        \* ret[p]: value returned by seed_domains
    returned,   \* returned[p]: seed functions that returned without raising
    obs,        \* obs[p][t]: result of check_table_has_data for t, if any
    ops,        \* ops[p]: storage operations issued by the run, in order
    before      \* before[p]: committed rows when the run started

dbvars   == <<exists, db>>
histvars == <<nruns, hist>>
procvars == <<pc, run, state, exit, staged, i, ret, returned, obs, ops, before>>
vars     == <<exists, db, nruns, hist, pc, run, state, exit, staged, i, ret,
              returned, obs, ops, before>>

----------------------------------------------------------------------------
(* Identifiers.  uuid.uuid4() of run r, k-th call; stored rows that were    *)
(* there before the first run carry run number 0.  str() of a UUID and the *)
(* database's parse of the string back to a UUID are kept apart.           *)

(* Variant: identifiers written into the source instead of uuid4() calls.  *)
Uuid4_literal(r, k) == <<1, k>>

Uuid4(r, k) == <<r, k>>

Str(u) == <<"str", u[1], u[2]>>

ParseUuid(s) == <<s[2], s[3]>>

(* ROLES, DOMAINS: the static catalogs, built when the module is imported. *)
ROLES(r) ==
    << [id |-> Str(Uuid4(r, 1)), title |-> "admin",
        description |-> "Administrator with full access to all features",
        is_active |-> TRUE],
       [id |-> Str(Uuid4(r, 2)), title |-> "user",
        description |-> "Standard user with basic access",
        is_active |-> TRUE] >>

(* Variant: one uuid4() value shared by all records of the catalog.        *)
DOMAINS_one_id(r) ==
    << [id |-> Str(Uuid4(r, 3)), title |-> "Sales",       is_active |-> TRUE],
       [id |-> Str(Uuid4(r, 3)), title |-> "Marketing",   is_active |-> TRUE],
       [id |-> Str(Uuid4(r, 3)), title |-> "Support",     is_active |-> TRUE],
       [id |-> Str(Uuid4(r, 3)), title |-> "Engineering", is_active |-> TRUE] >>

DOMAINS(r) ==
    << [id |-> Str(Uuid4(r, 3)), title |-> "Sales",       is_active |-> TRUE],
       [id |-> Str(Uuid4(r, 4)), title |-> "Marketing",   is_active |-> TRUE],
       [id |-> Str(Uuid4(r, 5)), title |-> "Support",     is_active |-> TRUE],
       [id |-> Str(Uuid4(r, 6)), title |-> "Engineering", is_active |-> TRUE] >>

Catalog(t, r) == IF t = "roles" THEN ROLES(r) ELSE DOMAINS(r)

(* The row an INSERT of seed_roles / seed_domains writes: the bound        *)
(* parameters {**record, "date_created": now} and the literal false for    *)
(* is_deleted.                                                             *)
RoleRow(role, now) ==
    [id |-> ParseUuid(role.id), title |-> role.title,
     description |-> role.description, is_active |-> role.is_active,
     date_created |-> now, is_deleted |-> FALSE]

DomainRow(domain, now) ==
    [id |-> ParseUuid(domain.id), title |-> domain.title,
     is_active |-> domain.is_active,
     date_created |-> now, is_deleted |-> FALSE]

NewRow(t, rec, now) == IF t = "roles" THEN RoleRow(rec, now) ELSE DomainRow(rec, now)

----------------------------------------------------------------------------
(* Rows a database may hold before the first run: left by an earlier       *)
(* seeding or written by the application, some of them soft-deleted.       *)

OldRoles ==
    { [id |-> Uuid4(0, 1), title |-> "admin",
       description |-> "Administrator with full access to all features",
       is_active |-> TRUE, date_created |-> 0, is_deleted |-> FALSE],
      [id |-> Uuid4(0, 2), title |-> "user",
       description |-> "Standard user with basic access",
       is_active |-> TRUE, date_created |-> 0, is_deleted |-> TRUE] }

OldDomains ==
    { [id |-> Uuid4(0, 3), title |-> "Sales", is_active |-> TRUE,
       date_created |-> 0, is_deleted |-> FALSE],
      [id |-> Uuid4(0, 4), title |-> "Ops", is_active |-> TRUE,
       date_created |-> 0, is_deleted |-> FALSE],
      [id |-> Uuid4(0, 5), title |-> "Legacy", is_active |-> FALSE,
       date_created |-> 0, is_deleted |-> TRUE] }

EmptyDb == [t \in Tables |-> {}]

NoObs == [t \in Tables |-> "none"]

Init ==
    /\ exists \in [Tables -> BOOLEAN]
    /\ \E r \in SUBSET OldRoles, d \in SUBSET OldDomains :
          db = [t \in Tables |->
                  IF ~exists[t] THEN {} ELSE IF t = "roles" THEN r ELSE d]
    /\ nruns = 0
    /\ hist = <<>>
    /\ pc = [p \in Procs |-> "idle"]
    /\ run = [p \in Procs |-> 0]
    /\ state = [p \in Procs |-> "NotStarted"]
    /\ exit = [p \in Procs |-> NoExit]
    /\ staged = [p \in Procs |-> EmptyDb]
    /\ i = [p \in Procs |-> 0]
    /\ ret = [p \in Procs |-> <<>>]
    /\ returned = [p \in Procs |-> {}]
    /\ obs = [p \in Procs |-> NoObs]
    /\ ops = [p \in Procs |-> <<>>]
    /\ before = [p \in Procs |-> db]

----------------------------------------------------------------------------
(* What a session sees: committed rows and the rows of its own open        *)
(* transaction.                                                            *)
Visible(p, t) == db[t] \cup staged[p][t]

(* Variant: the catalog query without "AND table_name = :table_name".      *)
check_table_exists_any(t) == \E u \in Tables : exists[u]

(* check_table_exists: the scalar of SELECT EXISTS over                    *)
(* information_schema.tables.                                              *)
check_table_exists(t) == exists[t]

(* Variant: the subquery carries "WHERE is_deleted = false".               *)
check_table_has_data_live(p, t) == \E r \in Visible(p, t) : ~r.is_deleted

(* Variant: the condition is inverted ("if not await ...").                *)
check_table_has_data_inverted(p, t) == Visible(p, t) = {}

(* Variant: the subquery selects nothing (LIMIT 0).                        *)
check_table_has_data_never(p, t) == FALSE

(* check_table_has_data: the scalar of SELECT EXISTS (SELECT 1 FROM t      *)
(* LIMIT 1).  No filter on is_deleted.  The query raises when t is not in  *)
(* the schema.                                                             *)
check_table_has_data(p, t) == Visible(p, t) # {}

(* INSERT ... ON CONFLICT DO NOTHING: the rows the statement adds to the   *)
(* transaction; none when a visible row has the identifier already.        *)
InsertOnConflictDoNothing(p, t, row) ==
    IF \E r \in Visible(p, t) : r.id = row.id THEN {} ELSE {row}

(* Variant: the read-back query without its WHERE clause.                  *)
SelectDomains_all(p) == Visible(p, "domains")

(* SELECT id, title FROM domains WHERE is_deleted = false.                 *)
SelectDomains(p) == { r \in Visible(p, "domains") : r.is_deleted = FALSE }

(* The orders in which fetchall() may deliver a set of rows: the query has *)
(* no ORDER BY.                                                            *)
Orderings(S) ==
    { s \in [1..Cardinality(S) -> S] : \A a, b \in 1..Cardinality(S) :
                                          a # b => s[a] # s[b] }

(* [{"id": str(row.id), "title": row.title} for row in rows]               *)
IdTitle(rows) == [k \in 1..Len(rows) |-> [id |-> Str(rows[k].id), title |-> rows[k].title]]

Op(name, t, ok) == [op |-> name, tbl |-> t, ok |-> ok]

Failed(log) == \E k \in 1..Len(log) : ~log[k].ok

Inserted(log) == { t \in Tables : \E k \in 1..Len(log) : log[k].op = "insert" /\ log[k].tbl = t }

(* What is kept of a finished run.                                         *)
Summary(p, st, ex, newdb, log) ==
    [state |-> st, exit |-> ex, before |-> before[p], after |-> newdb,
     ins |-> Inserted(log), skipped |-> { t \in Tables : obs[p][t] = "yes" },
     failed |-> Failed(log), ret |-> ret[p], returned |-> returned[p]]

(* The process ends: leaving "async with" closes the session, which drops  *)
(* whatever the transaction still holds; the interpreter exits with ex.    *)
Exit(p, st, ex, newdb, log) ==
    /\ pc' = [pc EXCEPT ![p] = "done"]
    /\ state' = [state EXCEPT ![p] = st]
    /\ exit' = [exit EXCEPT ![p] = ex]
    /\ db' = newdb
    /\ ops' = [ops EXCEPT ![p] = log]
    /\ staged' = [staged EXCEPT ![p] = EmptyDb]
    /\ hist' = Append(hist, Summary(p, st, ex, newdb, log))
    /\ UNCHANGED <<exists, nruns, run, i, ret, returned, obs, before>>

(* An exception inside the try block: control moves to the handler.        *)
Raise(p, log) ==
    /\ pc' = [pc EXCEPT ![p] = "rollback"]
    /\ ops' = [ops EXCEPT ![p] = log]
    /\ UNCHANGED <<dbvars, histvars, run, state, exit, staged, i, ret, returned, obs, before>>

----------------------------------------------------------------------------
(* python scripts/seed.py: a new process imports the module (fresh         *)
(* catalogs) and main() opens a session.  Invocations are sequential.      *)
StartRun(p) ==
    /\ pc[p] \in {"idle", "done"}
    /\ \A q \in Procs : pc[q] \in {"idle", "done"}
    /\ nruns < MaxRuns
    /\ nruns' = nruns + 1
    /\ run' = [run EXCEPT ![p] = nruns + 1]
    /\ pc' = [pc EXCEPT ![p] = "check_exists"]
    /\ state' = [state EXCEPT ![p] = "NotStarted"]
    /\ exit' = [exit EXCEPT ![p] = NoExit]
    /\ staged' = [staged EXCEPT ![p] = EmptyDb]
    /\ i' = [i EXCEPT ![p] = 0]
    /\ ret' = [ret EXCEPT ![p] = <<>>]
    /\ returned' = [returned EXCEPT ![p] = {}]
    /\ obs' = [obs EXCEPT ![p] = NoObs]
    /\ ops' = [ops EXCEPT ![p] = <<>>]
    /\ before' = [before EXCEPT ![p] = db]
    /\ UNCHANGED <<dbvars, hist>>

(* main, "if not await check_table_exists(session, 'roles')": outside the  *)
(* try block, so a raising query leaves main as an unhandled exception;    *)
(* a False result prints the remediation text and calls sys.exit(1).       *)
CheckRolesExist(p) ==
    /\ pc[p] = "check_exists"
    /\ \E ok \in BOOLEAN :
         LET log == Append(ops[p], Op("exists", "roles", ok)) IN
         IF ~ok THEN Exit(p, "Crashed", 1, db, log)
         ELSE IF ~check_table_exists("roles")
              THEN Exit(p, "PreconditionFailed", 1, db, log)
              ELSE /\ pc' = [pc EXCEPT ![p] = "roles_has_data"]
                   /\ state' = [state EXCEPT ![p] = "Running"]
                   /\ ops' = [ops EXCEPT ![p] = log]
                   /\ UNCHANGED <<dbvars, histvars, run, exit, staged, i, ret,
                                  returned, obs, before>>

(* The first statement of a seed function: "if await                       *)
(* check_table_has_data(session, t)".  skipPc is where control goes when   *)
(* the table has rows, and the function returns there iff doneOnSkip.      *)
HasDataStep(p, t, skipPc, insertPc, doneOnSkip) ==
    \E ok \in BOOLEAN :
      LET good == ok /\ exists[t]
          log  == Append(ops[p], Op("has_data", t, good)) IN
      IF ~good THEN Raise(p, log)
      ELSE LET has == check_table_has_data(p, t) IN
           /\ obs' = [obs EXCEPT ![p][t] = IF has THEN "yes" ELSE "no"]
           /\ pc' = [pc EXCEPT ![p] = IF has THEN skipPc ELSE insertPc]
           /\ i' = [i EXCEPT ![p] = IF has THEN i[p] ELSE 1]
           /\ returned' = [returned EXCEPT ![p] =
                             IF has /\ doneOnSkip THEN returned[p] \cup {t}
                             ELSE returned[p]]
           /\ ops' = [ops EXCEPT ![p] = log]
           /\ UNCHANGED <<dbvars, histvars, run, state, exit, staged, ret, before>>

(* One iteration of "for record in CATALOG: await session.execute(INSERT   *)
(* ...)"; after the last one the function prints and returns.              *)
InsertStep(p, t, nextPc) ==
    \E ok \in BOOLEAN :
      LET log  == Append(ops[p], Op("insert", t, ok))
          cat  == Catalog(t, run[p])
          row  == NewRow(t, cat[i[p]], run[p])
          last == i[p] = Len(cat) IN
      IF ~ok THEN Raise(p, log)
      ELSE /\ staged' = [staged EXCEPT ![p][t] = @ \cup InsertOnConflictDoNothing(p, t, row)]
           /\ i' = [i EXCEPT ![p] = IF last THEN 0 ELSE i[p] + 1]
           /\ pc' = [pc EXCEPT ![p] = IF last THEN nextPc ELSE pc[p]]
           /\ returned' = [returned EXCEPT ![p] = IF last THEN returned[p] \cup {t} ELSE returned[p]]
           /\ ret' = [ret EXCEPT ![p] = IF last /\ t = "domains" THEN DOMAINS(run[p]) ELSE ret[p]]
           /\ ops' = [ops EXCEPT ![p] = log]
           /\ UNCHANGED <<dbvars, histvars, run, state, exit, obs, before>>

(* seed_roles                                                              *)
SeedRolesHasData(p) ==
    /\ pc[p] = "roles_has_data"
    /\ HasDataStep(p, "roles", "domains_has_data", "roles_insert", TRUE)

SeedRolesInsert(p) ==
    /\ pc[p] = "roles_insert"
    /\ InsertStep(p, "roles", "domains_has_data")

(* Variant: seed_domains asks whether roles has rows.                      *)
SeedDomainsHasData_roles(p) ==
    /\ pc[p] = "domains_has_data"
    /\ HasDataStep(p, "roles", "domains_select", "domains_insert", FALSE)

(* seed_domains                                                            *)
SeedDomainsHasData(p) ==
    /\ pc[p] = "domains_has_data"
    /\ HasDataStep(p, "domains", "domains_select", "domains_insert", FALSE)

(* seed_domains, skip branch: read the existing domains back and return    *)
(* them.                                                                   *)
SeedDomainsSelect(p) ==
    /\ pc[p] = "domains_select"
    /\ \E ok \in BOOLEAN :
         LET log == Append(ops[p], Op("select", "domains", ok)) IN
         IF ~ok THEN Raise(p, log)
         ELSE \E rows \in Orderings(SelectDomains(p)) :
                /\ ret' = [ret EXCEPT ![p] = IdTitle(rows)]
                /\ returned' = [returned EXCEPT ![p] = @ \cup {"domains"}]
                /\ pc' = [pc EXCEPT ![p] = "commit"]
                /\ ops' = [ops EXCEPT ![p] = log]
                /\ UNCHANGED <<dbvars, histvars, run, state, exit, staged, i, obs, before>>

SeedDomainsInsert(p) ==
    /\ pc[p] = "domains_insert"
    /\ InsertStep(p, "domains", "commit")

(* main, "await session.commit()": the staged rows of both tables become   *)
(* committed together; main returns and the process exits with status 0.   *)
Commit(p) ==
    /\ pc[p] = "commit"
    /\ \E ok \in BOOLEAN :
         LET log == Append(ops[p], Op("commit", "", ok)) IN
         IF ~ok THEN Raise(p, log)
         ELSE Exit(p, "Committed", 0, [t \in Tables |-> db[t] \cup staged[p][t]], log)

(* Variant: the handler ends the transaction with commit().                *)
Rollback_commits(p) ==
    /\ pc[p] = "rollback"
    /\ \E ok \in BOOLEAN :
         LET log == Append(ops[p], Op("rollback", "", ok)) IN
         Exit(p, IF ok THEN "RolledBack" ELSE "Crashed", 1,
              IF ok THEN [t \in Tables |-> db[t] \cup staged[p][t]] ELSE db, log)

(* Variant: the handler rolls back and prints, without sys.exit(1).        *)
Rollback_no_exit(p) ==
    /\ pc[p] = "rollback"
    /\ \E ok \in BOOLEAN :
         LET log == Append(ops[p], Op("rollback", "", ok)) IN
         Exit(p, IF ok THEN "RolledBack" ELSE "Crashed", IF ok THEN 0 ELSE 1, db, log)

(* main, "except Exception: await session.rollback(); sys.exit(1)".  A     *)
(* raising rollback leaves main as an unhandled exception.                 *)
Rollback(p) ==
    /\ pc[p] = "rollback"
    /\ \E ok \in BOOLEAN :
         LET log == Append(ops[p], Op("rollback", "", ok)) IN
         Exit(p, IF ok THEN "RolledBack" ELSE "Crashed", 1, db, log)

Next ==
    \E p \in Procs :
       \/ StartRun(p)
       \/ CheckRolesExist(p)
       \/ SeedRolesHasData(p)
       \/ SeedRolesInsert(p)
       \/ SeedDomainsHasData(p)
       \/ SeedDomainsSelect(p)
       \/ SeedDomainsInsert(p)
       \/ Commit(p)
       \/ Rollback(p)

Spec == Init /\ [][Next]_vars

----------------------------------------------------------------------------
(* A run as a function of its inputs: the committed rows d it starts from, *)
(* its run number r, the set F of tables whose seed function raises, and   *)
(* whether the commit succeeds.  order is the sequence in which main calls *)
(* the seed functions; main's own is <<"roles", "domains">>.               *)

(* The for loop of a seed function: every record of cat from the k-th on   *)
(* is inserted with ON CONFLICT DO NOTHING into a table showing seen.      *)
RECURSIVE InsertAll(_, _, _, _, _)
InsertAll(t, cat, k, now, seen) ==
    IF k > Len(cat) THEN seen
    ELSE LET row == NewRow(t, cat[k], now) IN
         InsertAll(t, cat, k + 1, now,
                   IF \E x \in seen : x.id = row.id THEN seen ELSE seen \cup {row})

(* seed_roles / seed_domains on a table showing rows: what the transaction *)
(* holds for the table afterwards.                                         *)
SeedRows(t, rows, r) ==
    IF rows # {} THEN {} ELSE InsertAll(t, Catalog(t, r), 1, r, {})

(* The try block up to the commit: the seed functions in the given order,  *)
(* stopping at the first that raises.                                      *)
RECURSIVE SeedInOrder(_, _, _, _, _)
SeedInOrder(order, d, r, F, st) ==
    IF order = <<>> THEN [raised |-> FALSE, staged |-> st]
    ELSE LET t == Head(order) IN
         IF t \in F THEN [raised |-> TRUE, staged |-> st]
         ELSE SeedInOrder(Tail(order), d, r, F,
                          [st EXCEPT ![t] = st[t] \cup SeedRows(t, d[t] \cup st[t], r)])

(* main from the try block on: commit if nothing raised, else rollback and *)
(* sys.exit(1).                                                            *)
RunInOrder(order, d, r, F, commitOk) ==
    LET s == SeedInOrder(order, d, r, F, EmptyDb) IN
    IF s.raised \/ ~commitOk
    THEN [after |-> d, exit |-> 1]
    ELSE [after |-> [t \in Tables |-> d[t] \cup s.staged[t]], exit |-> 0]

----------------------------------------------------------------------------
(* Two invocations of the script at the same time against one database.   *)
(* Each is its own process and session; their awaits interleave.  A query  *)
(* sees what is committed when it executes and the rows of its own         *)
(* transaction (READ COMMITTED, the default of the engine main creates).   *)
ConcProcs == {1, 2}

InitConc ==
    /\ exists \in [Tables -> BOOLEAN]
    /\ \E r \in SUBSET OldRoles, d \in SUBSET OldDomains :
          db = [t \in Tables |->
                  IF ~exists[t] THEN {} ELSE IF t = "roles" THEN r ELSE d]
    /\ nruns = 0
    /\ hist = <<>>
    /\ pc = [p \in ConcProcs |-> "idle"]
    /\ run = [p \in ConcProcs |-> 0]
    /\ state = [p \in ConcProcs |-> "NotStarted"]
    /\ exit = [p \in ConcProcs |-> NoExit]
    /\ staged = [p \in ConcProcs |-> EmptyDb]
    /\ i = [p \in ConcProcs |-> 0]
    /\ ret = [p \in ConcProcs |-> <<>>]
    /\ returned = [p \in ConcProcs |-> {}]
    /\ obs = [p \in ConcProcs |-> NoObs]
    /\ ops = [p \in ConcProcs |-> <<>>]
    /\ before = [p \in ConcProcs |-> db]

(* python scripts/seed.py, started whatever the other process is doing.    *)
StartConcurrent(p) ==
    /\ pc[p] = "idle"
    /\ nruns' = nruns + 1
    /\ run' = [run EXCEPT ![p] = nruns + 1]
    /\ pc' = [pc EXCEPT ![p] = "check_exists"]
    /\ before' = [before EXCEPT ![p] = db]
    /\ UNCHANGED <<dbvars, hist, state, exit, staged, i, ret, returned, obs, ops>>

NextConc ==
    \E p \in ConcProcs :
       \/ StartConcurrent(p)
       \/ CheckRolesExist(p)
       \/ SeedRolesHasData(p)
       \/ SeedRolesInsert(p)
       \/ SeedDomainsHasData(p)
       \/ SeedDomainsSelect(p)
       \/ SeedDomainsInsert(p)
       \/ Commit(p)
       \/ Rollback(p)

SpecConc == InitConc /\ [][NextConc]_vars

TypeOK ==
    /\ nruns \in 0..MaxRuns
    /\ \A p \in Procs :
         /\ pc[p] \in {"idle", "check_exists", "roles_has_data", "roles_insert",
                       "domains_has_data", "domains_select", "domains_insert",
                       "commit", "rollback", "done"}
         /\ state[p] \in {"NotStarted", "Running", "Committed", "RolledBack",
                          "PreconditionFailed", "Crashed"}
         /\ exit[p] \in {NoExit, 0, 1}

----------------------------------------------------------------------------
(* Properties.                                                             *)

BothExist == \A t \in Tables : exists[t]

NumOps(log, name, t) ==
    Cardinality({ k \in 1..Len(log) : log[k].op = name /\ log[k].tbl = t })

Titles(rows) == { r.title : r \in rows }

Ids(rows) == { r.id : r \in rows }

Range(seq) == { seq[k] : k \in 1..Len(seq) }

(* C1 - Idempotence: on a database whose roles and domains tables exist    *)
(* and are empty, two runs in sequence without failures leave the          *)
(* committed rows the first run left; in the second run both seed          *)
(* functions take the skip branch and no INSERT is issued.                 *)
C1_Idempotence ==
    ( /\ Len(hist) >= 2
      /\ BothExist
      /\ hist[1].before = EmptyDb
      /\ ~hist[1].failed
      /\ ~hist[2].failed )
    => /\ hist[2].after = hist[1].after
       /\ hist[2].before = hist[1].after
       /\ hist[2].skipped = Tables
       /\ hist[2].ins = {}

C1_Witness ==
    /\ Len(hist) >= 2
    /\ BothExist
    /\ hist[1].before = EmptyDb
    /\ ~hist[1].failed /\ ~hist[2].failed
    /\ hist[1].ins = Tables
    /\ hist[1].state = "Committed" /\ hist[2].state = "Committed"
    /\ Cardinality(db["roles"]) = 2 /\ Cardinality(db["domains"]) = 4

(* C2 - Atomicity: the committed rows change only in a successful commit,  *)
(* which adds every row the transaction staged for both tables at once;    *)
(* while a run is in progress the committed rows are those it started      *)
(* with, and a run that did not commit (a seeding step, the commit or the  *)
(* rollback raised) leaves the committed rows as it found them.            *)
C2_Atomicity ==
    /\ [][ db' # db =>
             \E p \in Procs :
                /\ pc[p] = "commit" /\ state'[p] = "Committed"
                /\ db' = [t \in Tables |-> db[t] \cup staged[p][t]] ]_vars
    /\ [](\A p \in Procs : pc[p] \notin {"idle", "done"} => db = before[p])
    /\ [](\A p \in Procs :
            (pc[p] = "done" /\ (Failed(ops[p]) \/ state[p] # "Committed"))
               => db = before[p])
    /\ [](\A k \in 1..Len(hist) :
            (hist[k].failed \/ hist[k].state # "Committed")
               => hist[k].after = hist[k].before)

C2_Witness ==
    \E p \in Procs :
       /\ pc[p] = "done"
       /\ state[p] = "RolledBack"
       /\ NumOps(ops[p], "insert", "roles") = Len(ROLES(run[p]))
       /\ \E k \in 1..Len(ops[p]) :
             /\ ops[p][k].op = "insert" /\ ops[p][k].tbl = "domains"
             /\ ~ops[p][k].ok /\ k > 4
       /\ db = before[p]
       /\ db = EmptyDb

(* C3 - Precondition enforcement: when the roles table does not exist, a   *)
(* run never reaches the Running state: the existence query is the only    *)
(* storage operation it issues (no has-rows query, INSERT, commit or       *)
(* rollback), no seed function is entered, the committed rows stay as      *)
(* they were, and the process exits with status 1.                         *)
C3_PreconditionEnforcement ==
    \A p \in Procs :
       (~exists["roles"] /\ pc[p] # "idle") =>
          /\ pc[p] \in {"check_exists", "done"}
          /\ state[p] \in {"NotStarted", "PreconditionFailed", "Crashed"}
          /\ \A k \in 1..Len(ops[p]) : ops[p][k].op = "exists"
          /\ Len(ops[p]) <= 1
          /\ obs[p] = NoObs /\ returned[p] = {}
          /\ staged[p] = EmptyDb
          /\ db = before[p]
          /\ pc[p] = "done" => exit[p] = 1

C3_Witness ==
    \E p \in Procs :
       /\ ~exists["roles"] /\ exists["domains"]
       /\ pc[p] = "done"
       /\ state[p] = "PreconditionFailed"
       /\ exit[p] = 1
       /\ ops[p] = << Op("exists", "roles", TRUE) >>

(* C4 (as claimed) - Seed at most once: a table that has a row when its    *)
(* seed function looks at it receives no INSERT in that run, also when the *)
(* rows are only part of an earlier catalog; and over sequential runs at   *)
(* most one run issues INSERTs into a given table.                         *)
C4_AsClaimed ==
    /\ \A p \in Procs, t \in Tables :
          (pc[p] # "idle" /\ before[p][t] # {})
             => (NumOps(ops[p], "insert", t) = 0 /\ staged[p][t] = {})
    /\ \A k \in 1..Len(hist), t \in Tables :
          hist[k].before[t] # {}
             => (t \notin hist[k].ins /\ hist[k].after[t] = hist[k].before[t])
    /\ \A t \in Tables :
          Cardinality({ k \in 1..Len(hist) : t \in hist[k].ins }) <= 1

(* C4 (amended) - Seed at most once: a table that has a row when its seed  *)
(* function looks at it receives no INSERT in that run, also when the rows *)
(* are only part of an earlier catalog; and over sequential runs at most   *)
(* one run commits rows into a given table (a run that was rolled back may *)
(* have issued INSERTs that a later run issues again).                     *)
C4_SeedAtMostOnce ==
    /\ \A p \in Procs, t \in Tables :
          (pc[p] # "idle" /\ before[p][t] # {})
             => (NumOps(ops[p], "insert", t) = 0 /\ staged[p][t] = {})
    /\ \A k \in 1..Len(hist), t \in Tables :
          hist[k].before[t] # {}
             => (t \notin hist[k].ins /\ hist[k].after[t] = hist[k].before[t])
    /\ \A t \in Tables :
          Cardinality({ k \in 1..Len(hist) : hist[k].after[t] # hist[k].before[t] }) <= 1

C4_Witness ==
    /\ Len(hist) = 2
    /\ Titles(hist[1].before["roles"]) = {"admin"}
    /\ hist[1].before["domains"] = {}
    /\ hist[1].state = "Committed"
    /\ hist[1].ins = {"domains"}
    /\ hist[2].state = "Committed"
    /\ hist[2].ins = {}
    /\ Titles(db["roles"]) = {"admin"}

(* C5 - Fresh seed: from existing, empty roles and domains tables, a run   *)
(* in which nothing raises commits, exits with status 0 and leaves exactly *)
(* the rows admin and user in roles (active, not deleted) and exactly the  *)
(* rows Sales, Marketing, Support, Engineering in domains (not deleted),   *)
(* all six with different identifiers.                                     *)
C5_FreshSeed ==
    \A p \in Procs :
       (pc[p] = "done" /\ BothExist /\ before[p] = EmptyDb /\ ~Failed(ops[p]))
       => /\ state[p] = "Committed"
          /\ exit[p] = 0
          /\ Cardinality(db["roles"]) = 2
          /\ Titles(db["roles"]) = {"admin", "user"}
          /\ \A r \in db["roles"] : r.is_active /\ ~r.is_deleted
          /\ Cardinality(db["domains"]) = 4
          /\ Titles(db["domains"]) = {"Sales", "Marketing", "Support", "Engineering"}
          /\ \A r \in db["domains"] : ~r.is_deleted
          /\ Cardinality(Ids(db["roles"]) \cup Ids(db["domains"])) = 6

C5_Witness ==
    \E p \in Procs :
       /\ pc[p] = "done" /\ BothExist /\ before[p] = EmptyDb /\ ~Failed(ops[p])
       /\ run[p] = 1
       /\ NumOps(ops[p], "insert", "roles") = 2
       /\ NumOps(ops[p], "insert", "domains") = 4
       /\ Cardinality(db["domains"]) = 4

(* C6 - Skip correctness: the skip decision of a table depends on that     *)
(* table alone.  With roles populated and domains empty, a run in which    *)
(* nothing raises issues no INSERT into roles and len(DOMAINS) INSERTs     *)
(* into domains, and commits; with roles empty and domains populated it    *)
(* issues len(ROLES) INSERTs into roles and none into domains.             *)
C6_SkipCorrectness ==
    \A p \in Procs :
       (pc[p] = "done" /\ BothExist /\ ~Failed(ops[p]))
       => /\ (before[p]["roles"] # {} /\ before[p]["domains"] = {})
               => /\ NumOps(ops[p], "insert", "roles") = 0
                  /\ NumOps(ops[p], "insert", "domains") = Len(DOMAINS(run[p]))
                  /\ state[p] = "Committed"
                  /\ db["roles"] = before[p]["roles"]
                  /\ Cardinality(db["domains"]) = Len(DOMAINS(run[p]))
          /\ (before[p]["roles"] = {} /\ before[p]["domains"] # {})
               => /\ NumOps(ops[p], "insert", "roles") = Len(ROLES(run[p]))
                  /\ NumOps(ops[p], "insert", "domains") = 0
                  /\ state[p] = "Committed"
                  /\ db["domains"] = before[p]["domains"]
                  /\ Cardinality(db["roles"]) = Len(ROLES(run[p]))

C6_Witness ==
    \E p \in Procs :
       /\ pc[p] = "done" /\ BothExist /\ ~Failed(ops[p])
       /\ before[p]["roles"] # {} /\ before[p]["domains"] = {}
       /\ obs[p] = [t \in Tables |-> IF t = "roles" THEN "yes" ELSE "no"]
       /\ Cardinality(db["domains"]) = 4
       /\ state[p] = "Committed"

(* C7 - Insert-only frame condition: no step removes or changes a          *)
(* committed row; a step adds rows only to a table that had no row when    *)
(* the seed function checked it; whatever the outcome of a run, the rows   *)
(* present before it are present, unchanged, after it.                     *)
C7_InsertOnly ==
    /\ [][ \A t \in Tables :
              /\ db[t] \subseteq db'[t]
              /\ db'[t] # db[t] =>
                    \E p \in Procs : /\ pc[p] = "commit"
                                     /\ obs[p][t] = "no"
                                     /\ before[p][t] = {} ]_vars
    /\ [](\A p \in Procs, t \in Tables : staged[p][t] # {} => Visible(p, t) = staged[p][t])
    /\ [](\A k \in 1..Len(hist), t \in Tables :
             /\ hist[k].before[t] \subseteq hist[k].after[t]
             /\ hist[k].after[t] # hist[k].before[t] => hist[k].before[t] = {})

C7_Witness ==
    \E p \in Procs :
       /\ pc[p] = "done" /\ state[p] = "Committed"
       /\ Cardinality(before[p]["roles"]) = 2
       /\ before[p]["domains"] = {}
       /\ db["roles"] = before[p]["roles"]
       /\ Cardinality(db["domains"]) = 4
       /\ \E r \in db["roles"] : r.is_deleted

Pairs(rows) == { [id |-> Str(r.id), title |-> r.title] : r \in rows }

FreshDomainIds(r) == { DOMAINS(r)[k].id : k \in 1..Len(DOMAINS(r)) }

(* C8 (as claimed) - Read-back on skip: when seed_domains skips, the list  *)
(* it returns is exactly the (identifier, title) pairs of the rows that    *)
(* exist in domains and has none of the identifiers of this run's DOMAINS; *)
(* when it does not skip it returns DOMAINS, whose identifiers are those   *)
(* of the rows just inserted.                                              *)
C8_AsClaimed ==
    \A p \in Procs :
       "domains" \in returned[p] =>
          /\ obs[p]["domains"] = "yes" =>
                /\ Range(ret[p]) = Pairs(db["domains"])
                /\ Len(ret[p]) = Cardinality(db["domains"])
                /\ \A k \in 1..Len(ret[p]) : ret[p][k].id \notin FreshDomainIds(run[p])
          /\ obs[p]["domains"] = "no" =>
                /\ ret[p] = DOMAINS(run[p])
                /\ pc[p] = "commit" =>
                      { ret[p][k].id : k \in 1..Len(ret[p]) }
                          = { Str(u) : u \in Ids(staged[p]["domains"]) }
                /\ state[p] = "Committed" =>
                      { ret[p][k].id : k \in 1..Len(ret[p]) }
                          = { Str(u) : u \in Ids(db["domains"] \ before[p]["domains"]) }

(* C8 (amended) - Read-back on skip: when seed_domains skips, the list it  *)
(* returns is exactly the (identifier, title) pairs of the rows of domains *)
(* whose is_deleted is false, each once, and has none of the identifiers   *)
(* of this run's DOMAINS; when it does not skip it returns DOMAINS, whose  *)
(* identifiers are those of the rows just inserted.                        *)
C8_ReadBack ==
    \A p \in Procs :
       "domains" \in returned[p] =>
          /\ obs[p]["domains"] = "yes" =>
                /\ Range(ret[p]) = Pairs({ r \in db["domains"] : ~r.is_deleted })
                /\ Len(ret[p]) = Cardinality({ r \in db["domains"] : ~r.is_deleted })
                /\ \A k \in 1..Len(ret[p]) : ret[p][k].id \notin FreshDomainIds(run[p])
          /\ obs[p]["domains"] = "no" =>
                /\ ret[p] = DOMAINS(run[p])
                /\ pc[p] = "commit" =>
                      { ret[p][k].id : k \in 1..Len(ret[p]) }
                          = { Str(u) : u \in Ids(staged[p]["domains"]) }
                /\ state[p] = "Committed" =>
                      { ret[p][k].id : k \in 1..Len(ret[p]) }
                          = { Str(u) : u \in Ids(db["domains"] \ before[p]["domains"]) }

C8_Witness ==
    \E p \in Procs :
       /\ "domains" \in returned[p]
       /\ obs[p]["domains"] = "yes"
       /\ Titles(db["domains"]) = {"Sales", "Ops", "Legacy"}
       /\ Len(ret[p]) = 2
       /\ Titles(Range(ret[p])) = {"Sales", "Ops"}
       /\ { ret[p][k].id : k \in 1..2 } = { Str(Uuid4(0, 3)), Str(Uuid4(0, 4)) }

CommitOk(log) == \E k \in 1..Len(log) : log[k].op = "commit" /\ log[k].ok

(* C9 - Exit status: a finished run has status 0 exactly when its commit   *)
(* succeeded, which includes the run that found both tables populated and  *)
(* wrote nothing; it has status 1 when the roles table is missing or a     *)
(* storage operation raised, and then nothing was committed.               *)
C9_ExitStatus ==
    \A p \in Procs :
       /\ pc[p] # "done" => exit[p] = NoExit
       /\ pc[p] = "done" =>
             /\ exit[p] \in {0, 1}
             /\ exit[p] = 0 <=> CommitOk(ops[p])
             /\ (~exists["roles"] \/ Failed(ops[p]))
                   => (exit[p] = 1 /\ ~CommitOk(ops[p]) /\ db = before[p])
             /\ (BothExist /\ before[p]["roles"] # {} /\ before[p]["domains"] # {}
                   /\ ~Failed(ops[p]))
                   => (exit[p] = 0 /\ db = before[p] /\ Inserted(ops[p]) = {})

C9_Witness ==
    \E p \in Procs :
       /\ pc[p] = "done"
       /\ exit[p] = 0
       /\ before[p]["roles"] # {} /\ before[p]["domains"] # {}
       /\ Inserted(ops[p]) = {}
       /\ CommitOk(ops[p])
       /\ db = before[p]
       /\ \E k \in 1..Len(hist) : hist[k].exit = 1 /\ hist[k].state = "RolledBack"

Pos(log, name, t) == { k \in 1..Len(log) : log[k].op = name /\ log[k].tbl = t }

(* C10 - Driver termination and ordering: a finished run is in exactly one *)
(* of the terminal states Committed, RolledBack and precondition failure;  *)
(* the existence query comes before every other storage operation, the     *)
(* operations of seed_roles before those of seed_domains, commit only      *)
(* after both seed functions returned, commit and rollback never both      *)
(* succeed in one run, and nothing follows an operation that raised except *)
(* the one rollback.                                                       *)
C10_AsClaimed ==
    \A p \in Procs :
       LET log == ops[p] IN
       /\ pc[p] = "done" => state[p] \in {"Committed", "RolledBack", "PreconditionFailed"}
       /\ Len(log) >= 1 => (log[1].op = "exists" /\ Pos(log, "exists", "roles") = {1})
       /\ \A a, b \in 1..Len(log) :
             (log[a].tbl = "roles" /\ log[b].tbl = "domains") => a < b
       /\ \A k \in Pos(log, "commit", "") :
             /\ \A a \in 1..Len(log) : log[a].op \in {"exists", "has_data", "insert", "select"} => a < k
             /\ Pos(log, "has_data", "roles") # {} /\ Pos(log, "has_data", "domains") # {}
             /\ \A a \in 1..(k - 1) : log[a].ok
       /\ Cardinality(Pos(log, "commit", "")) <= 1
       /\ Cardinality(Pos(log, "rollback", "")) <= 1
       /\ ~(CommitOk(log) /\ \E k \in Pos(log, "rollback", "") : log[k].ok)
       /\ \A k \in 1..Len(log) :
             ~log[k].ok =>
                \/ k = Len(log)
                \/ (k + 1 = Len(log) /\ log[k + 1].op = "rollback" /\ log[k].op # "rollback")

(* C11 - Single failure boundary: whenever a storage operation of a run    *)
(* raised (the existence query, a has-rows query, an INSERT or the         *)
(* commit), control is in the driver's handler: the next operation is the  *)
(* rollback, and the run ends with the rollback issued and status 1.       *)
C11_AsClaimed ==
    \A p \in Procs :
       LET log == ops[p] IN
       \A k \in 1..Len(log) :
          (~log[k].ok /\ log[k].op \in {"exists", "has_data", "insert", "commit"})
             => /\ k = Len(log) => pc[p] = "rollback"
                /\ k < Len(log) => (k + 1 = Len(log) /\ log[k + 1].op = "rollback")
                /\ pc[p] = "done" => (Pos(log, "rollback", "") # {} /\ exit[p] = 1)

(* C12 - Applier precondition: a seed function is entered, and its         *)
(* has-rows query issued, only for a table that exists; in particular the  *)
(* has-rows query of seed_domains is never issued when the domains table   *)
(* does not exist.                                                         *)
C12_AsClaimed ==
    \A p \in Procs, t \in Tables :
       Pos(ops[p], "has_data", t) # {} => exists[t]

RowsTitled(rows, title) == { r \in rows : r.title = title }

CatalogTitles(t) == { Catalog(t, 1)[k].title : k \in 1..Len(Catalog(t, 1)) }

(* C13 - Concurrent invocations are not safe: when two interleaved runs    *)
(* both found a table without rows and both committed, the table holds     *)
(* the catalog twice: two rows for every catalog title, all with           *)
(* different identifiers (the conflict clause suppressed nothing).         *)
C13_SeededTwice ==
    \A t \in Tables :
       (\A p \in ConcProcs : state[p] = "Committed" /\ obs[p][t] = "no")
          => /\ \A title \in CatalogTitles(t) :
                   Cardinality(RowsTitled(db[t], title)) = 2
             /\ Titles(db[t]) = CatalogTitles(t)
             /\ Cardinality(Ids(db[t])) = 2 * Len(Catalog(t, 1))
             /\ Cardinality(db[t]) = 2 * Len(Catalog(t, 1))

C13_Witness ==
    /\ \A p \in ConcProcs :
          /\ state[p] = "Committed"
          /\ obs[p] = [t \in Tables |-> "no"]
          /\ ~Failed(ops[p])
          /\ before[p] = EmptyDb
    /\ Cardinality(db["roles"]) = 4
    /\ Cardinality(RowsTitled(db["roles"], "admin")) = 2
    /\ Cardinality(db["domains"]) = 8
    /\ Cardinality(RowsTitled(db["domains"], "Sales")) = 2

FailedOn(log, t) == \E k \in 1..Len(log) : log[k].tbl = t /\ ~log[k].ok

(* The failure assignments F and commit outcomes c a finished run is a run *)
(* of: what it did not get to is left open.                                *)
Consistent(log, F, c) ==
    /\ "roles" \in F <=> FailedOn(log, "roles")
    /\ ~FailedOn(log, "roles") => ("domains" \in F <=> FailedOn(log, "domains"))
    /\ Pos(log, "commit", "") # {} => (c <=> CommitOk(log))

(* C14 - Order independence: with both tables in the schema, a finished    *)
(* run of main (roles, then domains) has the committed rows and the exit   *)
(* status that the run calling seed_domains before seed_roles has from the *)
(* same rows, the same run number, the same tables failing and the same    *)
(* commit outcome.                                                         *)
C14_OrderIndependence ==
    \A p \in Procs :
       (pc[p] = "done" /\ BothExist /\ ops[p][1].ok) =>
          \A F \in SUBSET Tables, c \in BOOLEAN :
             Consistent(ops[p], F, c) =>
                LET a == RunInOrder(<<"roles", "domains">>, before[p], run[p], F, c)
                    b == RunInOrder(<<"domains", "roles">>, before[p], run[p], F, c) IN
                /\ a.after = db /\ a.exit = exit[p]
                /\ b.after = db /\ b.exit = exit[p]

C14_Witness ==
    \E p \in Procs :
       /\ pc[p] = "done" /\ BothExist
       /\ before[p] = EmptyDb
       /\ NumOps(ops[p], "insert", "roles") = 2
       /\ FailedOn(ops[p], "domains") /\ ~FailedOn(ops[p], "roles")
       /\ exit[p] = 1
       /\ RunInOrder(<<"domains", "roles">>, before[p], run[p], {"domains"}, TRUE)
             = [after |-> db, exit |-> 1]
       /\ RunInOrder(<<"domains", "roles">>, before[p], run[p], {}, TRUE).exit = 0

(* The committed rows a single run in which nothing raises leaves from d.  *)
SingleRun(d) ==
    IF BothExist THEN RunInOrder(<<"roles", "domains">>, d, 1, {}, TRUE).after ELSE d

SameSeeding(x, y) ==
    \A t \in Tables : Titles(x[t]) = Titles(y[t]) /\ Cardinality(x[t]) = Cardinality(y[t])

(* C15 - Safe re-run after failure: a run that did not commit (rollback,   *)
(* precondition failure, unhandled exception) leaves the committed rows as *)
(* it found them; a run in which nothing raises, coming after any number   *)
(* of such runs, leaves per table the titles and the row count that one    *)
(* run in which nothing raises leaves from the original rows, and a table  *)
(* that was empty then holds every catalog title exactly once.             *)
C15_SafeRerun ==
    \A k \in 1..Len(hist) :
       /\ hist[k].state # "Committed" => hist[k].after = hist[k].before
       /\ ( /\ \A j \in 1..(k - 1) : hist[j].state # "Committed"
            /\ ~hist[k].failed )
          => /\ hist[k].before = hist[1].before
             /\ SameSeeding(hist[k].after, SingleRun(hist[1].before))
             /\ hist[k].state = "Committed" =>
                   \A t \in Tables :
                      hist[1].before[t] = {} =>
                         /\ Cardinality(hist[k].after[t]) = Len(Catalog(t, 1))
                         /\ \A title \in CatalogTitles(t) :
                               Cardinality(RowsTitled(hist[k].after[t], title)) = 1

C15_Witness ==
    /\ Len(hist) = 2
    /\ hist[1].state = "RolledBack"
    /\ hist[1].ins = Tables
    /\ hist[1].before = EmptyDb
    /\ hist[2].state = "Committed" /\ ~hist[2].failed
    /\ hist[2].ins = Tables
    /\ SameSeeding(db, SingleRun(EmptyDb))
    /\ Cardinality(db["roles"]) = 2 /\ Cardinality(db["domains"]) = 4

OnlySoftDeleted(rows) == rows # {} /\ \A r \in rows : r.is_deleted

(* C16 - Soft-deleted rows count as data for the skip decision, not for    *)
(* the read-back: a table whose only rows are soft-deleted makes its seed  *)
(* function skip (no INSERT, never seeded); for domains the list returned  *)
(* is then empty; and the run, if the roles table exists and nothing       *)
(* raises, still commits with exit status 0 and the table unchanged.       *)
C16_SoftDeleted ==
    \A p \in Procs, t \in Tables :
       (pc[p] # "idle" /\ OnlySoftDeleted(before[p][t])) =>
          /\ obs[p][t] \in {"none", "yes"}
          /\ NumOps(ops[p], "insert", t) = 0
          /\ staged[p][t] = {}
          /\ db[t] = before[p][t]
          /\ (t = "domains" /\ "domains" \in returned[p]) => ret[p] = <<>>
          /\ (pc[p] = "done" /\ exists["roles"] /\ ~Failed(ops[p]))
                => (exit[p] = 0 /\ state[p] = "Committed" /\ obs[p][t] = "yes")

C16_Witness ==
    \E p \in Procs :
       /\ pc[p] = "done"
       /\ Titles(before[p]["domains"]) = {"Legacy"}
       /\ OnlySoftDeleted(db["domains"])
       /\ obs[p]["domains"] = "yes"
       /\ "domains" \in returned[p]
       /\ ret[p] = <<>>
       /\ exit[p] = 0
       /\ NumOps(ops[p], "select", "domains") = 1

====
